---- MODULE Spec2Model ----
(***************************************************************************)
(* Model of the interactive book catalog of src/main.py.                   *)
(*                                                                         *)
(* A Python str is modelled as a sequence of one-character strings, so     *)
(* that strip(), lower(), upper(), int(), the substring test and the JSON  *)
(* encoding are computed character by character as the interpreter does.   *)
(* The characters are those of ASCII.  A character is written as itself,   *)
(* as its TLA+ escape (tab, line feed, form feed, carriage return, quote,  *)
(* backslash) or, for the other control characters, DEL and the backquote  *)
(* (which a TLA+ string cannot hold), as the string of its Python escape:  *)
(* x0b after a backslash is the vertical tab.                              *)
(* Characters beyond ASCII, which input() can also return, are outside     *)
(* the model.                                                              *)
(* One step of the model is one iteration of the menu loop of main(): the  *)
(* menu choice is read and the chosen handler runs to completion, or the   *)
(* iteration ends in an exception that nothing catches, and the process    *)
(* with it: EOFError or RuntimeError out of an input(), OSError out of an  *)
(* input() or a print(), or KeyboardInterrupt (Ctrl-C) between any two     *)
(* statements.  A handler is written as the sequence of what its           *)
(* statements do, so that the process can end at any of them.              *)
(* A print() is one statement: it prints its whole line, or raises and     *)
(* prints nothing.                                                         *)
(***************************************************************************)
EXTENDS Integers, Sequences, FiniteSets, TLC

VARIABLES
    running,    \* TRUE while the `while True` loop of main() has not hit `break`
    database,   \* the module-level list of dictionaries
    out,        \* the lines printed by the last loop iteration, after the menu prompt
    written,    \* the files written by the last loop iteration (<<>> or one content)
    option,     \* the menu choice read by the last loop iteration, stripped
    raised,     \* the exception that ended the process, "" while none has
    stdio       \* "lost" when the process was started without stdin or stdout

vars == <<running, database, out, written, option, raised, stdio>>

----------------------------------------------------------------------------
(* Bounds *)

\* Largest number of records the model lets the list grow to.
MaxDb == 3

----------------------------------------------------------------------------
(* Constants of the interpreter *)

\* sys.get_int_max_str_digits(): int() refuses a str of more decimal digits.
MaxStrDigits == 4300

----------------------------------------------------------------------------
(* Python str operations *)

UpperLetters == <<"A","B","C","D","E","F","G","H","I","J","K","L","M",
                  "N","O","P","Q","R","S","T","U","V","W","X","Y","Z">>
LowerLetters == <<"a","b","c","d","e","f","g","h","i","j","k","l","m",
                  "n","o","p","q","r","s","t","u","v","w","x","y","z">>
Digits == <<"0","1","2","3","4","5","6","7","8","9">>

\* The characters of ASCII in code order: Ascii[n + 1] has code n.
Ascii == <<
    "\\x00", "\\x01", "\\x02", "\\x03", "\\x04", "\\x05", "\\x06", "\\x07",
    "\\x08", "\t", "\n", "\\x0b", "\f", "\r", "\\x0e", "\\x0f",
    "\\x10", "\\x11", "\\x12", "\\x13", "\\x14", "\\x15", "\\x16", "\\x17",
    "\\x18", "\\x19", "\\x1a", "\\x1b", "\\x1c", "\\x1d", "\\x1e", "\\x1f",
    " ", "!", "\"", "#", "$", "%", "&", "'",
    "(", ")", "*", "+", ",", "-", ".", "/",
    "0", "1", "2", "3", "4", "5", "6", "7",
    "8", "9", ":", ";", "<", "=", ">", "?",
    "@", "A", "B", "C", "D", "E", "F", "G",
    "H", "I", "J", "K", "L", "M", "N", "O",
    "P", "Q", "R", "S", "T", "U", "V", "W",
    "X", "Y", "Z", "[", "\\", "]", "^", "_",
    "\\x60", "a", "b", "c", "d", "e", "f", "g",
    "h", "i", "j", "k", "l", "m", "n", "o",
    "p", "q", "r", "s", "t", "u", "v", "w",
    "x", "y", "z", "{", "|", "}", "~", "\\x7f" >>

\* ord(c) of an ASCII character.
CodeOf == [c \in {Ascii[i] : i \in 1..Len(Ascii)} |->
              (CHOOSE i \in 1..Len(Ascii) : Ascii[i] = c) - 1]

\* The ASCII characters for which str.isspace() holds: tab, line feed,
\* vertical tab, form feed, carriage return, the four separators and space.
WhiteSpace == {"\t", "\n", "\\x0b", "\f", "\r", "\\x1c", "\\x1d", "\\x1e", "\\x1f", " "}

IndexIn(c, table) == CHOOSE i \in 1..Len(table) : table[i] = c

\* The case mappings of the ASCII letters; every other character maps to itself.
ToLower == [c \in {UpperLetters[i] : i \in 1..26} |-> LowerLetters[IndexIn(c, UpperLetters)]]
ToUpper == [c \in {LowerLetters[i] : i \in 1..26} |-> UpperLetters[IndexIn(c, LowerLetters)]]
DigitValue == [c \in {Digits[i] : i \in 1..10} |-> IndexIn(c, Digits) - 1]

LowerChar(c) == IF c \in DOMAIN ToLower THEN ToLower[c] ELSE c
UpperChar(c) == IF c \in DOMAIN ToUpper THEN ToUpper[c] ELSE c

\* str.lower() and str.upper()
Lower(s) == [i \in 1..Len(s) |-> LowerChar(s[i])]
Upper(s) == [i \in 1..Len(s) |-> UpperChar(s[i])]

\* s without its leading and trailing characters of the set ws
StripOf(s, ws) ==
    IF \A i \in 1..Len(s) : s[i] \in ws THEN <<>>
    ELSE LET first == CHOOSE i \in 1..Len(s) :
                         s[i] \notin ws /\ \A j \in 1..(i - 1) : s[j] \in ws
             back  == CHOOSE k \in 0..(Len(s) - 1) :
                         /\ s[Len(s) - k] \notin ws
                         /\ \A j \in (Len(s) - k + 1)..Len(s) : s[j] \in ws
         IN  SubSeq(s, first, Len(s) - back)

\* str.strip(): drop the leading and the trailing whitespace
Strip(s) == StripOf(s, WhiteSpace)

\* The whitespace int() itself drops around the number: tab, line feed,
\* vertical tab, form feed, carriage return and space, not the separators.
IntWhiteSpace == {"\t", "\n", "\\x0b", "\f", "\r", " "}

\* `q in s` for two str
Contains(q, s) ==
    \E i \in 0..(Len(s) - Len(q)) : SubSeq(s, i + 1, i + Len(q)) = q

\* The natural number a short string of decimal digits writes.
RECURSIVE ValueOf(_)
ValueOf(s) ==
    IF s = <<>> THEN 0
    ELSE 10 * ValueOf(SubSeq(s, 1, Len(s) - 1)) + DigitValue[s[Len(s)]]

\* A Python int has no largest value.  It is kept as the decimal str() gives
\* for it: "-" for a negative number, then the digits without leading zeros.

\* The int of a string of decimal digits.
DigitsValue(s) ==
    LET zeros == IF \A i \in 1..Len(s) : s[i] = "0" THEN Len(s)
                 ELSE (CHOOSE i \in 1..Len(s) :
                          s[i] # "0" /\ \A j \in 1..(i - 1) : s[j] = "0") - 1
    IN  IF zeros = Len(s) THEN <<"0">> ELSE SubSeq(s, zeros + 1, Len(s))

\* The int a natural number of the model is.
RECURSIVE Decimal(_)
Decimal(n) ==
    IF n < 10 THEN << Digits[n + 1] >>
    ELSE Decimal(n \div 10) \o << Digits[(n % 10) + 1] >>

\* a <= b for two strings of digits without leading zeros
DigitsLeq(a, b) ==
    \/ Len(a) < Len(b)
    \/ /\ Len(a) = Len(b)
       /\ \/ a = b
          \/ \E i \in 1..Len(a) :
                /\ DigitValue[a[i]] < DigitValue[b[i]]
                /\ \A j \in 1..(i - 1) : a[j] = b[j]

\* a <= b for two int
IntLeq(a, b) ==
    IF a[1] = "-"
    THEN b[1] # "-" \/ DigitsLeq(Tail(b), Tail(a))
    ELSE b[1] # "-" /\ DigitsLeq(a, b)

\* int(s): surrounding whitespace is dropped, one sign is allowed, single
\* underscores may separate digits; anything else, and a number of more than
\* MaxStrDigits digits (leading zeros counted, sign and underscores not),
\* raises ValueError.
ParseInt(s) ==
    LET t    == StripOf(s, IntWhiteSpace)
        neg  == t # <<>> /\ t[1] = "-"
        body == IF t # <<>> /\ t[1] \in {"+", "-"} THEN Tail(t) ELSE t
        wellFormed ==
            /\ body # <<>>
            /\ \A i \in 1..Len(body) : body[i] \in DOMAIN DigitValue \/ body[i] = "_"
            /\ body[1] # "_"
            /\ body[Len(body)] # "_"
            /\ \A i \in 1..(Len(body) - 1) : ~(body[i] = "_" /\ body[i + 1] = "_")
        digs == SelectSeq(body, LAMBDA c : c # "_")
    IN  IF Len(body) > MaxStrDigits /\ Len(digs) > MaxStrDigits
        THEN [ok |-> FALSE, val |-> <<>>]
        ELSE IF wellFormed
        THEN [ok |-> TRUE,
              val |-> IF neg /\ DigitsValue(digs) # <<"0">>
                      THEN <<"-">> \o DigitsValue(digs)
                      ELSE DigitsValue(digs)]
        ELSE [ok |-> FALSE, val |-> <<>>]

----------------------------------------------------------------------------
(* Records *)

BookKey   == <<"B","o","o","k">>
AuthorKey == <<"A","u","t","h","o","r">>
GenreKey  == <<"G","e","n","r","e">>

\* The keys of a record in dict insertion order.
Keys == <<BookKey, AuthorKey, GenreKey>>

\* The dict add_item builds.
Item(book, author, genre) ==
    [k \in {BookKey, AuthorKey, GenreKey} |->
        IF k = BookKey THEN book ELSE IF k = AuthorKey THEN author ELSE genre]

----------------------------------------------------------------------------
(* json.dump(database, f, indent=2) *)

RECURSIVE Concat(_)
Concat(ss) == IF ss = <<>> THEN <<>> ELSE Head(ss) \o Concat(Tail(ss))

HexDigits == <<"0","1","2","3","4","5","6","7","8","9","a","b","c","d","e","f">>

\* The escape \u00XX of an ASCII character.
UEscape(c) ==
    <<"\\", "u", "0", "0", HexDigits[(CodeOf[c] \div 16) + 1], HexDigits[(CodeOf[c] % 16) + 1]>>

\* The characters from space to tilde.
Printable(c) == c \in DOMAIN CodeOf /\ 32 <= CodeOf[c] /\ CodeOf[c] <= 126

\* EncodeChar with the escape of the backslash forgotten.
EncodeChar_NoBackslash(c) ==
    CASE c = "\"" -> <<"\\", "\"">>
      [] c = "\n" -> <<"\\", "n">>
      [] c = "\r" -> <<"\\", "r">>
      [] c = "\t" -> <<"\\", "t">>
      [] c = "\f" -> <<"\\", "f">>
      [] c = "\\x08" -> <<"\\", "b">>
      [] OTHER    -> IF Printable(c) THEN <<c>> ELSE UEscape(c)

\* The JSON escape of one character (ensure_ascii, ASCII input): a short
\* escape for the quote, the backslash, backspace, form feed, line feed,
\* carriage return and tab, \u00XX for every other character outside
\* space..tilde, and the character itself otherwise.
EncodeChar(c) ==
    CASE c = "\"" -> <<"\\", "\"">>
      [] c = "\\" -> <<"\\", "\\">>
      [] c = "\n" -> <<"\\", "n">>
      [] c = "\r" -> <<"\\", "r">>
      [] c = "\t" -> <<"\\", "t">>
      [] c = "\f" -> <<"\\", "f">>
      [] c = "\\x08" -> <<"\\", "b">>
      [] OTHER    -> IF Printable(c) THEN <<c>> ELSE UEscape(c)

EncodeString(s) ==
    <<"\"">> \o Concat([i \in 1..Len(s) |-> EncodeChar(s[i])]) \o <<"\"">>

NewlineIndent(n) == <<"\n">> \o [i \in 1..n |-> " "]

\* The chunks json.dump writes for one dict at indent level 1: the brace, the
\* new line, then for each key in insertion order the key, ": " and the value,
\* with "," and a new line before every key but the first.
ItemChunks(item) ==
    << <<"{">>, NewlineIndent(4) >>
    \o Concat([k \in 1..Len(Keys) |->
                 (IF k = 1 THEN <<>> ELSE << <<",">> \o NewlineIndent(4) >>)
                    \o << EncodeString(Keys[k]), <<":", " ">>, EncodeString(item[Keys[k]]) >>])
    \o << NewlineIndent(2), <<"}">> >>

\* The chunks json.dump writes for a list of dicts, one fp.write() each.
DumpChunks(db) ==
    IF db = <<>> THEN << <<"[", "]">> >>
    ELSE Concat([i \in 1..Len(db) |->
                   << (IF i = 1 THEN <<"[">> ELSE <<",">>) \o NewlineIndent(2) >>
                      \o ItemChunks(db[i])])
         \o << NewlineIndent(0), <<"]">> >>

\* The text json.dump writes for a list of dicts.
Dump(db) == Concat(DumpChunks(db))

----------------------------------------------------------------------------
(* Console output *)

\* A line printed with print(): its fixed wording, the number printed in it (0
\* when it has none), the record it shows (<<>> or one record) and the str it
\* quotes (<<>> or one str).  The text of the input() prompts is not kept.
Msg(text)          == [text |-> text, n |-> 0, shown |-> <<>>, quoted |-> <<>>]
Numbered(text, n)  == [text |-> text, n |-> n, shown |-> <<>>, quoted |-> <<>>]
Shown(text, n, it) == [text |-> text, n |-> n, shown |-> <<it>>, quoted |-> <<>>]
Quoting(text, s)   == [text |-> text, n |-> 0, shown |-> <<>>, quoted |-> <<s>>]

----------------------------------------------------------------------------
(* User input *)

MenuInputs == { <<"1">>, <<"2">>, <<"3">>, <<"4">>, <<"5">>, <<"6">>, <<"7">>,
                <<"8">>, <<"\\x0b", "8", "\t">>, <<"9">>, <<"\\x1c">>, <<"8", "8">> }

\* add_item: title, author, genre
BookInputs   == { <<>>, <<" ", "\\x0b">>, <<"D","u","n","e">>,
                  <<" ", "d","U","n","e","2", " ">> }
AuthorInputs == { <<" ", "H","\"","\\","\t","\\x0b","b">>,
                  <<"H","\"","\\","\t","\\x0b","b", "\\x1f">> }
GenreInputs  == { <<"F","a","n","t","a","s","y">>, <<"\t", "F","a","n","t","a","s","y">> }

\* search_items: the search term
SearchInputs == { <<>>, <<" ", "F","A","N">>, <<"e","h">>, <<"E"," ","h">>, <<"2">>, <<"z">> }

\* search_by_genre: the genre
GenreQueryInputs == { <<"f","a","n">>, <<" ">>, <<"h">> }

\* The str of n times the character c.
RECURSIVE Repeat(_, _)
Repeat(c, n) ==
    IF n = 0 THEN <<>>
    ELSE LET half == Repeat(c, n \div 2)
         IN  half \o half \o (IF n % 2 = 1 THEN <<c>> ELSE <<>>)

\* A number of one digit more than int() converts: zeros, then 1.
LongNumber == Repeat("0", MaxStrDigits) \o <<"1">>

\* edit_item, delete_item: the title to look for and the number chosen
TitleInputs  == { <<" ", "D","U","N","E">>, <<"e","2">>, <<"x">> }
ChoiceInputs == { <<"1">>, <<"\\x1e", "+", "2", " ">>, <<"0">>, <<"x">>,
                  <<"2","1","4","7","4","8","3","6","4","8">>, LongNumber }

\* edit_item: the field name and the new value typed for it, as pairs
EditInputs ==
    { << <<"B","o","o","k">>,          <<" ", "D","u","n","e", "\\x0b">> >>,
      << <<"B","o","o","k">>,          <<"\\x1d", "\t">> >>,
      << <<" ", "G","e","n","r","e">>, <<"F","a","n","t","a","s","y", "\\x1f">> >>,
      << <<" ", "G","e","n","r","e">>, <<>> >>,
      << <<"b","o","o","k">>,          <<" ", "D","u","n","e", "\\x0b">> >>,
      << <<"b","o","o","k">>,          <<"\\x1d", "\t">> >> }

\* delete_item: the confirmation
ConfirmInputs == { <<" ", "y","e","s", "\\x0b">>, <<"Y">>, <<>> }

\* export_to_file: what the file system does with open() and the writes, and
\* the standard output with the print() of the try block
IoOutcomes == { "ok", "open fails", "write fails", "print fails" }

\* How much of the text a failed write may leave in the file.
Cuts(text) == { 0, Len(text) \div 2, Len(text) - 1 }

----------------------------------------------------------------------------
(* Effects *)

\* What a statement does that the model keeps: it waits for a line of input,
\* prints a line, changes the list (arg is the list after the statement),
\* creates the export file, or writes a chunk of text to it.  A handler is
\* the sequence of the effects of its statements in the order they run.
\* The print() inside the try block of export_to_file is told apart: what it
\* raises is caught.
Reading        == [op |-> "input", arg |-> <<>>]
Printing(line) == [op |-> "print", arg |-> line]
PrintingInTry(line) == [op |-> "print in try", arg |-> line]
Storing(db)    == [op |-> "store", arg |-> db]
Opening        == [op |-> "open",  arg |-> <<>>]
Writing(chunk) == [op |-> "write", arg |-> chunk]

\* One print() per line.
PrintingAll(lines) == [i \in 1..Len(lines) |-> Printing(lines[i])]

\* The lines printed by a sequence of effects.
Printed(effects) ==
    LET prints == SelectSeq(effects, LAMBDA e : e.op \in {"print", "print in try"})
    IN  [i \in 1..Len(prints) |-> prints[i].arg]

\* The list after a sequence of effects.
Stored(effects) ==
    LET stores == SelectSeq(effects, LAMBDA e : e.op = "store")
    IN  IF stores = <<>> THEN database ELSE stores[Len(stores)].arg

\* The files left by a sequence of effects: none, or the one opened, holding
\* the chunks written to it.
Filed(effects) ==
    LET writes == SelectSeq(effects, LAMBDA e : e.op = "write")
    IN  IF SelectSeq(effects, LAMBDA e : e.op = "open") = <<>>
        THEN <<>>
        ELSE << Concat([i \in 1..Len(writes) |-> writes[i].arg]) >>

\* The statements ran, all of them.  (The effects are computed once.)
Completed(effects) ==
    \E run \in {effects} :
       /\ out' = Printed(run)
       /\ database' = Stored(run)
       /\ written' = Filed(run)

\* The exceptions nothing in the program catches.  input() raises EOFError at
\* the end of input, and RuntimeError when the process was started without
\* its standard input or output; input() and print() raise OSError when the
\* standard input or output fails (a terminal gone, a full device, a pipe
\* without reader); KeyboardInterrupt (Ctrl-C) is raised between any two
\* statements and while input() waits.
EndOfInput  == "EOFError"
Interrupt   == "KeyboardInterrupt"
LostStream  == "RuntimeError"
StreamError == "OSError"

\* The process as an exception leaves it.
Outcome(effects, e) ==
    [out |-> Printed(effects), database |-> Stored(effects),
     written |-> Filed(effects), raised |-> e]

\* The exceptions that end the process in place of a statement.
Raises(effect) ==
    CASE effect.op = "input" -> { Interrupt, EndOfInput, StreamError }
      [] effect.op = "print" -> { Interrupt, StreamError }
      [] OTHER               -> { Interrupt }

\* The ways effects end in an exception: one raised in place of any of the
\* statements, the ones before it done, or Ctrl-C after the last.  (The
\* effects are computed once.)
Ended(effects) ==
    UNION { UNION { { [done EXCEPT !.raised = e] :
                         done \in { Outcome(SubSeq(run, 1, n), Interrupt) },
                         e \in IF n < Len(run) THEN Raises(run[n + 1])
                                               ELSE { Interrupt } } :
                    n \in 0..Len(run) } :
            run \in {effects} }

\* The uncaught exception ends the loop and the process.
Ends(r) ==
    /\ out' = r.out
    /\ database' = r.database
    /\ written' = r.written
    /\ raised' = r.raised
    /\ running' = FALSE

----------------------------------------------------------------------------
(* Handlers *)

Init ==
    /\ running = TRUE
    /\ database = <<>>
    /\ out = <<>>
    /\ written = <<>>
    /\ option = <<>>
    /\ raised = ""
    /\ stdio \in { "open", "lost" }

\* TitleMissing with the check dropped.
TitleMissing_Never(book_in) == FALSE

\* TitleMissing testing the input as typed, before strip().
TitleMissing_Unstripped(book_in) == book_in = <<>>

\* `not item["Book"]` of add_item, where item["Book"] is the stripped input
TitleMissing(book_in) == Strip(book_in) = <<>>

\* add_item refusing silently a record the list already holds.
add_item_NoDuplicates(book_in, author_in, genre_in) ==
    LET item == Item(Strip(book_in), Strip(author_in), Strip(genre_in))
    IN  << Reading, Reading, Reading >>
        \o IF Strip(book_in) = <<>>
           THEN << Printing(Msg("Book title cannot be empty.")) >>
           ELSE IF \E i \in 1..Len(database) : database[i] = item
           THEN << Printing(Msg("Book added successfully!")) >>
           ELSE << Storing(Append(database, item)), Printing(Msg("Book added successfully!")) >>

\* add_item()
add_item(book_in, author_in, genre_in) ==
    LET item == Item(Strip(book_in), Strip(author_in), Strip(genre_in))
    IN  << Reading, Reading, Reading >>
        \o IF TitleMissing(book_in)
           THEN << Printing(Msg("Book title cannot be empty.")) >>
           ELSE << Storing(Append(database, item)), Printing(Msg("Book added successfully!")) >>

\* The four lines view_all prints for record number i.
ViewLines(i, item) ==
    << Numbered("--- Book ---", i), Quoting("Book: ", item[BookKey]),
       Quoting("Author: ", item[AuthorKey]), Quoting("Genre: ", item[GenreKey]) >>

\* view_all()
view_all ==
    IF database = <<>>
    THEN << Printing(Msg("No books yet!")) >>
    ELSE PrintingAll(Concat([i \in 1..Len(database) |-> ViewLines(i, database[i])]))

\* The f-string of search_items: the three fields joined by single spaces.
Combined(item) == item[BookKey] \o <<" ">> \o item[AuthorKey] \o <<" ">> \o item[GenreKey]

\* SearchHits with the lower() of the combined text forgotten.
SearchHits_CaseSensitive(search_term) ==
    SelectSeq(database, LAMBDA item : Contains(search_term, Combined(item)))

\* The records search_items prints, in the order it prints them.
SearchHits(search_term) ==
    SelectSeq(database, LAMBDA item : Contains(search_term, Lower(Combined(item))))

\* search_items()
search_items(term_in) ==
    IF database = <<>>
    THEN << Printing(Msg("No books in the database yet!")) >>
    ELSE LET search_term == Lower(Strip(term_in))
             hits == SearchHits(search_term)
         IN  << Reading >>
             \o IF hits = <<>>
                THEN << Printing(Msg("No items found.")) >>
                ELSE PrintingAll([i \in 1..Len(hits) |-> Shown("- by ()", 0, hits[i])])

\* find_matches_by_title pairing each match with its rank among the matches
\* instead of its position in the list.
find_matches_by_rank(search_title) ==
    LET idx == SelectSeq([i \in 1..Len(database) |-> i],
                         LAMBDA i : Contains(search_title, Lower(database[i][BookKey])))
    IN  [k \in 1..Len(idx) |-> <<k, database[idx[k]]>>]

\* _find_matches_by_title(search_title): the pairs (index, record) of the
\* records whose lower-cased title contains search_title, in list order.
\* The index is the position in the TLA+ sequence, one more than Python's.
find_matches_by_title(search_title) ==
    LET idx == SelectSeq([i \in 1..Len(database) |-> i],
                         LAMBDA i : Contains(search_title, Lower(database[i][BookKey])))
    IN  [k \in 1..Len(idx) |-> <<idx[k], database[idx[k]]>>]

\* The "Matching books:" listing edit_item and delete_item print.
MatchListing(matches) ==
    << Msg("Matching books:") >>
        \o [k \in 1..Len(matches) |-> Shown(". by ()", k, matches[k][2])]

\* The field menu edit_item prints: one line per key of the record.
FieldListing ==
    << Msg("Which field do you want to edit?") >>
        \o [k \in 1..Len(Keys) |-> Quoting("- ", Keys[k])]

\* Select taking the number typed as counted from 0.
Select_ZeroBased(choice_in, n) ==
    LET choice == ParseInt(Strip(choice_in))
    IN  IF ~choice.ok
        THEN [ok |-> FALSE, k |-> 0, msg |-> "Please enter a valid number."]
        ELSE IF ~(IntLeq(Decimal(0), choice.val) /\ ~IntLeq(Decimal(n), choice.val))
        THEN [ok |-> FALSE, k |-> 0, msg |-> "Invalid selection."]
        ELSE [ok |-> TRUE, k |-> ValueOf(choice.val) + 1, msg |-> ""]

\* The try block of edit_item and delete_item: the number typed, checked
\* against the n matches.  k is the number chosen when ok, else msg is printed.
Select(choice_in, n) ==
    LET choice == ParseInt(Strip(choice_in))
    IN  IF ~choice.ok
        THEN [ok |-> FALSE, k |-> 0, msg |-> "Please enter a valid number."]
        ELSE IF ~(IntLeq(Decimal(1), choice.val) /\ IntLeq(choice.val, Decimal(n)))
        THEN [ok |-> FALSE, k |-> 0, msg |-> "Invalid selection."]
        ELSE [ok |-> TRUE, k |-> ValueOf(choice.val), msg |-> ""]

\* `field_input not in book`, negated
KnownField(field_input, book) == field_input \in DOMAIN book

\* HasValue with the check dropped.
HasValue_Always(new_value) == TRUE

\* `if new_value:`
HasValue(new_value) == new_value # <<>>

\* edit_item()
edit_item(search_in, choice_in, field_in, value_in) ==
    IF database = <<>>
    THEN << Printing(Msg("No books to edit yet!")) >>
    ELSE
    LET search_title == Lower(Strip(search_in))
        matches      == find_matches_by_title(search_title)
        choice       == Select(choice_in, Len(matches))
    IN  << Reading >>
        \o IF matches = <<>>
           THEN << Printing(Msg("No books found with that title.")) >>
           ELSE
           PrintingAll(MatchListing(matches)) \o << Reading >>
           \o IF ~choice.ok
              THEN << Printing(Msg(choice.msg)) >>
              ELSE
              LET index_to_edit == matches[choice.k][1]
                  book          == matches[choice.k][2]
                  field_input   == Strip(field_in)
                  new_value     == Strip(value_in)
              IN  PrintingAll(FieldListing) \o << Reading >>
                  \o IF ~KnownField(field_input, book)
                     THEN << Printing(Msg("Invalid field name.")) >>
                     ELSE
                     << Reading >>
                     \o IF HasValue(new_value)
                        THEN << Storing([database EXCEPT ![index_to_edit] =
                                          [book EXCEPT ![field_input] = new_value]]),
                                Printing(Msg("Book updated successfully!")) >>
                        ELSE << Printing(Msg("No change made.")) >>

\* `del database[i]`
DelAt(db, i) == SubSeq(db, 1, i - 1) \o SubSeq(db, i + 1, Len(db))

\* Confirmed looking at the first letter only.
Confirmed_FirstLetter(confirm_in) ==
    Strip(confirm_in) # <<>> /\ Head(Upper(Strip(confirm_in))) = "Y"

\* `confirm == "YES"`, where confirm is the stripped, upper-cased input
Confirmed(confirm_in) == Upper(Strip(confirm_in)) = <<"Y", "E", "S">>

\* delete_item()
delete_item(search_in, choice_in, confirm_in) ==
    IF database = <<>>
    THEN << Printing(Msg("No books to delete yet!")) >>
    ELSE
    LET search_title == Lower(Strip(search_in))
        matches      == find_matches_by_title(search_title)
        choice       == Select(choice_in, Len(matches))
    IN  << Reading >>
        \o IF matches = <<>>
           THEN << Printing(Msg("No books found with that title.")) >>
           ELSE
           PrintingAll(MatchListing(matches)) \o << Reading >>
           \o IF ~choice.ok
              THEN << Printing(Msg(choice.msg)) >>
              ELSE
              LET index_to_delete == matches[choice.k][1]
              IN  << Reading >>
                  \o IF Confirmed(confirm_in)
                     THEN << Storing(DelAt(database, index_to_delete)),
                             Printing(Msg("Book deleted successfully!")) >>
                     ELSE << Printing(Msg("Delete cancelled.")) >>

\* The records search_by_genre prints, in the order it prints them.
GenreHits(genre_search) ==
    SelectSeq(database, LAMBDA item : Contains(genre_search, Lower(item[GenreKey])))

\* search_by_genre()
search_by_genre(genre_in) ==
    IF database = <<>>
    THEN << Printing(Msg("No books in the database yet!")) >>
    ELSE LET genre_search == Lower(Strip(genre_in))
             hits == GenreHits(genre_search)
         IN  << Reading, Printing(Quoting("Books in Genre '':", genre_search)) >>
             \o IF hits = <<>>
                THEN << Printing(Msg("No books found in that Genre.")) >>
                ELSE PrintingAll([i \in 1..Len(hits) |-> Shown("- by", 0, hits[i])])

\* export_to_file(): the file name carries the time of the call and is not
\* kept.  json.dump writes the text chunk by chunk; a write that fails leaves
\* the first cut characters of it.  `except Exception` catches what open(),
\* the writes and the print() of the try block raise.
export_to_file(io, cut) ==
    IF database = <<>>
    THEN << Printing(Msg("No books to export yet!")) >>
    ELSE CASE io = "ok" ->
                LET chunks == DumpChunks(database)
                IN  << Opening >>
                    \o [k \in 1..Len(chunks) |-> Writing(chunks[k])]
                    \o << PrintingInTry(Msg("Export complete: ")) >>
           [] io = "open fails" ->
                << Printing(Msg("Export failed: ")) >>
           [] io = "print fails" ->
                LET chunks == DumpChunks(database)
                IN  << Opening >>
                    \o [k \in 1..Len(chunks) |-> Writing(chunks[k])]
                    \o << Printing(Msg("Export failed: ")) >>
           [] OTHER ->
                << Opening, Writing(SubSeq(Dump(database), 1, cut)),
                   Printing(Msg("Export failed: ")) >>

\* The branch of main() for the choice 8, up to its break.
goodbye == << Printing(Msg("Goodbye!")) >>

\* The branch of main() for any other choice.
invalid_option == << Printing(Msg("Invalid option.")) >>

----------------------------------------------------------------------------
(* The menu loop of main() *)

\* The choices main() dispatches on.
Options == { <<"1">>, <<"2">>, <<"3">>, <<"4">>, <<"5">>, <<"6">>, <<"7">>, <<"8">> }

\* The menu is printed (its lines are not kept) and the choice, stripped, is o.
Chosen(o) ==
    /\ running
    /\ stdio = "open"
    /\ \E choice \in MenuInputs : Strip(choice) = o
    /\ option' = o

\* The titles add_item is given: one that is stored only while the list has
\* room in the model.
Addable(book_in) == TitleMissing(book_in) \/ Len(database) < MaxDb

\* edit_item and delete_item go on to read their further inputs only when the
\* title has matches and the number typed selects one of them.
Selects(search_in, choice_in) ==
    LET matches == find_matches_by_title(Lower(Strip(search_in)))
    IN  /\ database # <<>>
        /\ matches # <<>>
        /\ Select(choice_in, Len(matches)).ok

\* The ways each handler ends in an exception, over the inputs of the model.
AddEnded ==
    UNION { Ended(add_item(b, a, g)) :
              b \in {x \in BookInputs : Addable(x)}, a \in AuthorInputs, g \in GenreInputs }

SearchEnded == UNION { Ended(search_items(q)) : q \in SearchInputs }

EditEnded ==
    UNION { IF Selects(t, c)
            THEN UNION { Ended(edit_item(t, c, e[1], e[2])) : e \in EditInputs }
            ELSE Ended(edit_item(t, c, <<>>, <<>>)) : t \in TitleInputs, c \in ChoiceInputs }

DeleteEnded ==
    UNION { IF Selects(t, c)
            THEN UNION { Ended(delete_item(t, c, y)) : y \in ConfirmInputs }
            ELSE Ended(delete_item(t, c, <<>>)) : t \in TitleInputs, c \in ChoiceInputs }

GenreEnded == UNION { Ended(search_by_genre(q)) : q \in GenreQueryInputs }

ExportEnded ==
    UNION { IF database # <<>> /\ io = "write fails"
            THEN UNION { Ended(export_to_file(io, cut)) : cut \in Cuts(Dump(database)) }
            ELSE Ended(export_to_file(io, 0)) : io \in IoOutcomes }

AddItem ==
    /\ Chosen(<<"1">>)
    /\ \E b \in BookInputs, a \in AuthorInputs, g \in GenreInputs :
          Addable(b) /\ Completed(add_item(b, a, g))
    /\ UNCHANGED <<running, raised, stdio>>

ViewAll ==
    /\ Chosen(<<"2">>)
    /\ Completed(view_all)
    /\ UNCHANGED <<running, raised, stdio>>

SearchItems ==
    /\ Chosen(<<"3">>)
    /\ \E q \in SearchInputs : Completed(search_items(q))
    /\ UNCHANGED <<running, raised, stdio>>

EditItem ==
    /\ Chosen(<<"4">>)
    /\ \E t \in TitleInputs, c \in ChoiceInputs :
          IF Selects(t, c)
          THEN \E e \in EditInputs : Completed(edit_item(t, c, e[1], e[2]))
          ELSE Completed(edit_item(t, c, <<>>, <<>>))
    /\ UNCHANGED <<running, raised, stdio>>

DeleteItem ==
    /\ Chosen(<<"5">>)
    /\ \E t \in TitleInputs, c \in ChoiceInputs :
          IF Selects(t, c)
          THEN \E y \in ConfirmInputs : Completed(delete_item(t, c, y))
          ELSE Completed(delete_item(t, c, <<>>))
    /\ UNCHANGED <<running, raised, stdio>>

SearchByGenre ==
    /\ Chosen(<<"6">>)
    /\ \E q \in GenreQueryInputs : Completed(search_by_genre(q))
    /\ UNCHANGED <<running, raised, stdio>>

ExportToFile ==
    /\ Chosen(<<"7">>)
    /\ \E io \in IoOutcomes :
          IF database # <<>> /\ io = "write fails"
          THEN \E cut \in Cuts(Dump(database)) : Completed(export_to_file(io, cut))
          ELSE Completed(export_to_file(io, 0))
    /\ UNCHANGED <<running, raised, stdio>>

Exit ==
    /\ Chosen(<<"8">>)
    /\ Completed(goodbye)
    /\ running' = FALSE
    /\ UNCHANGED <<raised, stdio>>

InvalidOption ==
    /\ running
    /\ stdio = "open"
    /\ \E choice \in MenuInputs :
          /\ Strip(choice) \notin Options
          /\ option' = Strip(choice)
    /\ Completed(invalid_option)
    /\ UNCHANGED <<running, raised, stdio>>

\* The loop ends before a choice is read: interrupted while the menu is
\* printed or the prompt waits, a print() of the menu or the input() raises
\* OSError, or input() raises for the end of input or for the lost stream.
MenuAborts ==
    /\ running
    /\ raised' \in { Interrupt, StreamError,
                    IF stdio = "open" THEN EndOfInput ELSE LostStream }
    /\ running' = FALSE
    /\ option' = <<>>
    /\ out' = <<>>
    /\ written' = <<>>
    /\ UNCHANGED <<database, stdio>>

AddItemAborts ==
    /\ Chosen(<<"1">>)
    /\ \E r \in AddEnded : Ends(r)
    /\ UNCHANGED stdio

ViewAllAborts ==
    /\ Chosen(<<"2">>)
    /\ \E r \in Ended(view_all) : Ends(r)
    /\ UNCHANGED stdio

SearchItemsAborts ==
    /\ Chosen(<<"3">>)
    /\ \E r \in SearchEnded : Ends(r)
    /\ UNCHANGED stdio

EditItemAborts ==
    /\ Chosen(<<"4">>)
    /\ \E r \in EditEnded : Ends(r)
    /\ UNCHANGED stdio

DeleteItemAborts ==
    /\ Chosen(<<"5">>)
    /\ \E r \in DeleteEnded : Ends(r)
    /\ UNCHANGED stdio

SearchByGenreAborts ==
    /\ Chosen(<<"6">>)
    /\ \E r \in GenreEnded : Ends(r)
    /\ UNCHANGED stdio

ExportToFileAborts ==
    /\ Chosen(<<"7">>)
    /\ \E r \in ExportEnded : Ends(r)
    /\ UNCHANGED stdio

\* Interrupted before or after the print of the choice 8, before the break.
ExitAborts ==
    /\ Chosen(<<"8">>)
    /\ \E r \in Ended(goodbye) : Ends(r)
    /\ UNCHANGED stdio

InvalidOptionAborts ==
    /\ running
    /\ stdio = "open"
    /\ \E choice \in MenuInputs :
          /\ Strip(choice) \notin Options
          /\ option' = Strip(choice)
    /\ \E r \in Ended(invalid_option) : Ends(r)
    /\ UNCHANGED stdio

Next ==
    \/ AddItem
    \/ ViewAll
    \/ SearchItems
    \/ EditItem
    \/ DeleteItem
    \/ SearchByGenre
    \/ ExportToFile
    \/ Exit
    \/ InvalidOption
    \/ MenuAborts
    \/ AddItemAborts
    \/ ViewAllAborts
    \/ SearchItemsAborts
    \/ EditItemAborts
    \/ DeleteItemAborts
    \/ SearchByGenreAborts
    \/ ExportToFileAborts
    \/ ExitAborts
    \/ InvalidOptionAborts

Spec == Init /\ [][Next]_vars

----------------------------------------------------------------------------
(* Properties *)

Yes == <<"Y", "E", "S">>

\* The positions, in list order, of the records whose title contains the
\* stripped query, letter case ignored.
TitleMatchPositions(search_in) ==
    {i \in 1..Len(database) : Contains(Lower(Strip(search_in)), Lower(database[i][BookKey]))}

\* The k-th smallest member of a finite set of numbers.
KthOf(S, k) == CHOOSE i \in S : Cardinality({j \in S : j <= i}) = k

\* The number typed is a number within 1..n.
InRange(choice_in, n) ==
    /\ ParseInt(Strip(choice_in)).ok
    /\ ParseInt(Strip(choice_in)).val \in {Decimal(k) : k \in 1..n}

\* The records shown by the printed lines, in the order printed.
RecordsShown(lines) == Concat([i \in 1..Len(lines) |-> lines[i].shown])

LastLine(lines) == lines[Len(lines)]

\* Reading an exported file back, as json.load does on the JSON that
\* json.dump emits for a list of dicts of strings: whitespace between tokens,
\* two-character escapes in strings, a failure on anything else.
JsonWhiteSpace == {" ", "\t", "\n", "\r"}

\* The first position from i on that holds no JSON whitespace.
RECURSIVE SkipWs(_, _)
SkipWs(t, i) == IF i <= Len(t) /\ t[i] \in JsonWhiteSpace THEN SkipWs(t, i + 1) ELSE i

Failed == [ok |-> FALSE, val |-> <<>>, next |-> 0]

\* The character a two-character escape stands for.
Unescape == [c \in {"\"", "\\", "/", "b", "n", "r", "t", "f"} |->
                CASE c = "n" -> "\n" [] c = "r" -> "\r" [] c = "t" -> "\t"
                  [] c = "f" -> "\f" [] c = "b" -> "\\x08" [] OTHER -> c]

\* The value of a hexadecimal digit, in either case.
HexValue == [c \in {HexDigits[i] : i \in 1..16} \cup {"A", "B", "C", "D", "E", "F"} |->
                IF c \in DOMAIN ToLower
                THEN (CHOOSE i \in 1..16 : HexDigits[i] = ToLower[c]) - 1
                ELSE (CHOOSE i \in 1..16 : HexDigits[i] = c) - 1]

\* The code the four hexadecimal digits from position i on spell, or -1.
UCode(t, i) ==
    IF i + 3 <= Len(t) /\ \A j \in i..(i + 3) : t[j] \in DOMAIN HexValue
    THEN ((HexValue[t[i]] * 16 + HexValue[t[i + 1]]) * 16 + HexValue[t[i + 2]]) * 16
            + HexValue[t[i + 3]]
    ELSE 0 - 1

\* Reads the rest of a JSON string, the opening quote being before position i.
RECURSIVE ReadChars(_, _, _)
ReadChars(t, i, acc) ==
    IF i > Len(t) THEN Failed
    ELSE IF t[i] = "\"" THEN [ok |-> TRUE, val |-> acc, next |-> i + 1]
    ELSE IF t[i] = "\\"
         THEN IF i + 1 <= Len(t) /\ t[i + 1] \in DOMAIN Unescape
              THEN ReadChars(t, i + 2, Append(acc, Unescape[t[i + 1]]))
              ELSE IF i + 1 <= Len(t) /\ t[i + 1] = "u"
                      /\ UCode(t, i + 2) >= 0 /\ UCode(t, i + 2) < Len(Ascii)
              THEN ReadChars(t, i + 6, Append(acc, Ascii[UCode(t, i + 2) + 1]))
              ELSE Failed
    ELSE IF t[i] \in DOMAIN CodeOf /\ CodeOf[t[i]] < 32 THEN Failed
    ELSE ReadChars(t, i + 1, Append(acc, t[i]))

ReadString(t, i) ==
    IF i <= Len(t) /\ t[i] = "\"" THEN ReadChars(t, i + 1, <<>>) ELSE Failed

\* Reads "key": "value" members up to the closing brace; acc is the list of
\* the (key, value) pairs read so far.
RECURSIVE ReadMembers(_, _, _)
ReadMembers(t, i, acc) ==
    LET key   == ReadString(t, SkipWs(t, i))
        colon == SkipWs(t, key.next)
        value == ReadString(t, SkipWs(t, colon + 1))
        after == SkipWs(t, value.next)
    IN  IF ~key.ok \/ colon > Len(t) \/ t[colon] # ":" THEN Failed
        ELSE IF ~value.ok \/ after > Len(t) THEN Failed
        ELSE IF t[after] = "}"
             THEN [ok |-> TRUE, val |-> Append(acc, <<key.val, value.val>>), next |-> after + 1]
        ELSE IF t[after] = ","
             THEN ReadMembers(t, after + 1, Append(acc, <<key.val, value.val>>))
        ELSE Failed

\* The dict of a list of (key, value) pairs; the last pair of a key wins.
DictOf(pairs) ==
    [k \in {pairs[j][1] : j \in 1..Len(pairs)} |->
        LET last == CHOOSE j \in 1..Len(pairs) :
                        /\ pairs[j][1] = k
                        /\ \A h \in (j + 1)..Len(pairs) : pairs[h][1] # k
        IN  pairs[last][2]]

ReadObject(t, i) ==
    IF i > Len(t) \/ t[i] # "{" THEN Failed
    ELSE LET j == SkipWs(t, i + 1)
         IN  IF j <= Len(t) /\ t[j] = "}"
             THEN [ok |-> TRUE, val |-> <<>>, next |-> j + 1]
             ELSE ReadMembers(t, i + 1, <<>>)

\* Reads objects up to the closing bracket; acc is the list of the dicts read.
RECURSIVE ReadElements(_, _, _)
ReadElements(t, i, acc) ==
    LET obj   == ReadObject(t, SkipWs(t, i))
        after == SkipWs(t, obj.next)
    IN  IF ~obj.ok \/ after > Len(t) THEN Failed
        ELSE IF t[after] = "]"
             THEN [ok |-> TRUE, val |-> Append(acc, DictOf(obj.val)), next |-> after + 1]
        ELSE IF t[after] = ","
             THEN ReadElements(t, after + 1, Append(acc, DictOf(obj.val)))
        ELSE Failed

\* Reading a file as JSON: a list of dicts of strings, or a failure.
Load(t) ==
    LET open  == SkipWs(t, 1)
        first == SkipWs(t, open + 1)
        list  == IF open > Len(t) \/ t[open] # "[" THEN Failed
                 ELSE IF first <= Len(t) /\ t[first] = "]"
                      THEN [ok |-> TRUE, val |-> <<>>, next |-> first + 1]
                      ELSE ReadElements(t, open + 1, <<>>)
    IN  IF list.ok /\ SkipWs(t, list.next) > Len(t)
        THEN [ok |-> TRUE, val |-> list.val]
        ELSE [ok |-> FALSE, val |-> <<>>]

\* The step ends somewhere along the effects: after all of them, or after
\* some of them with an exception.
Reached(effects) ==
    \E run \in {effects} :
       \E n \in 0..Len(run) :
          /\ out' = Printed(SubSeq(run, 1, n))
          /\ database' = Stored(SubSeq(run, 1, n))
          /\ written' = Filed(SubSeq(run, 1, n))

\* C1: every record stored in the catalog has a non-empty title.
C1_TitlesNonEmpty ==
    \A i \in 1..Len(database) : database[i][BookKey] # <<>>

\* A catalog that holds records, right after an edit to a blank value was refused.
C1_Witness ==
    /\ running
    /\ Len(database) >= 2
    /\ LastLine(out) = Msg("No change made.")

\* C2: a delete whose confirmation, stripped and upper-cased, is not YES
\* leaves the catalog as it was, whichever record was selected and wherever
\* the delete ends.
C2_UnconfirmedDeleteKeepsCatalog ==
    [][ (option' = <<"5">> /\ database' # database) =>
          \A y \in ConfirmInputs :
             Upper(Strip(y)) # Yes =>
                \A t \in TitleInputs, c \in ChoiceInputs : ~Reached(delete_item(t, c, y)) ]_vars

\* Two records matched, one was selected and the delete was cancelled.
C2_Witness ==
    /\ running
    /\ Len(database) = 2
    /\ Len(out) = 4
    /\ LastLine(out) = Msg("Delete cancelled.")

\* C3: a confirmed delete removes the k-th title match in catalog order for
\* the number k chosen: the size drops by one and the other records keep
\* their values and their relative order.
C3_ConfirmedDeleteRemovesSelected ==
    [][ (option' = <<"5">> /\ raised' = "") =>
          \A t \in TitleInputs :
             LET found == TitleMatchPositions(t)
             IN  \A c \in ChoiceInputs :
                    InRange(c, Cardinality(found)) =>
                       \A y \in ConfirmInputs :
                          (Upper(Strip(y)) = Yes /\ Completed(delete_item(t, c, y))) =>
                             LET gone == KthOf(found, ValueOf(ParseInt(Strip(c)).val))
                             IN  /\ Len(database') = Len(database) - 1
                                 /\ \A j \in 1..(gone - 1) : database'[j] = database[j]
                                 /\ \A j \in gone..Len(database') :
                                       database'[j] = database[j + 1] ]_vars

\* Three records matched and one was deleted from a catalog of three: the
\* two that remain differ, and are the first and the third listed, in that
\* order.
C3_Witness ==
    /\ running
    /\ Len(database) = 2
    /\ Len(out) = 5
    /\ LastLine(out) = Msg("Book deleted successfully!")
    /\ out[2].shown = << database[1] >>
    /\ out[4].shown = << database[2] >>
    /\ database[1] # database[2]

\* C4: an add whose title is empty after stripping is refused and leaves the
\* catalog as it was, whatever author and genre were entered and wherever the
\* add ends.
C4_BlankTitleAddKeepsCatalog ==
    [][ (option' = <<"1">> /\ database' # database) =>
          \A b \in BookInputs :
             Strip(b) = <<>> =>
                \A a \in AuthorInputs, g \in GenreInputs : ~Reached(add_item(b, a, g)) ]_vars

\* An add was refused while the catalog held a record.
C4_Witness ==
    /\ running
    /\ Len(database) = 1
    /\ out = << Msg("Book title cannot be empty.") >>

\* C5: an add with a non-empty title appends the record entered (its fields
\* as read, stripped) at the end and keeps the records before it, so that N
\* such adds from the empty catalog give N records in insertion order.
C5_ValidAddAppends ==
    [][ (option' = <<"1">> /\ raised' = "") =>
          \A b \in BookInputs :
             Strip(b) # <<>> =>
                \A a \in AuthorInputs, g \in GenreInputs :
                   Completed(add_item(b, a, g)) =>
                      /\ Len(database') = Len(database) + 1
                      /\ \A j \in 1..Len(database) : database'[j] = database[j]
                      /\ database'[Len(database')][BookKey] = Strip(b)
                      /\ database'[Len(database')][AuthorKey] = Strip(a)
                      /\ database'[Len(database')][GenreKey] = Strip(g) ]_vars

\* The same record was added twice.
C5_Witness ==
    /\ running
    /\ Len(database) = 2
    /\ database[1] = database[2]
    /\ out = << Msg("Book added successfully!") >>

\* C6: an edit whose field name is not one of Book, Author, Genre, or whose
\* new value is empty after stripping, changes nothing in the catalog,
\* wherever the edit ends.
C6_RejectedEditKeepsCatalog ==
    [][ (option' = <<"4">> /\ database' # database) =>
          \A e \in EditInputs :
             (Strip(e[1]) \notin {BookKey, AuthorKey, GenreKey} \/ Strip(e[2]) = <<>>) =>
                \A t \in TitleInputs, c \in ChoiceInputs :
                   ~Reached(edit_item(t, c, e[1], e[2])) ]_vars

\* A record was selected among two and the edit ended without a change.
C6_Witness ==
    /\ running
    /\ Len(database) = 2
    /\ Len(out) = 8
    /\ LastLine(out) \in { Msg("No change made."), Msg("Invalid field name.") }

\* C7: in edit and delete, when the title matches records, they are listed
\* numbered from 1 in catalog order, and a number typed that is not a number
\* or lies outside 1..(number of matches) ends the handler with an error
\* message, the catalog unchanged and the menu loop still running.
C7_BadSelectionAborts ==
    [][ (option' \in { <<"4">>, <<"5">> } /\ raised' = "") =>
          \A t \in TitleInputs :
             LET found == TitleMatchPositions(t)
             IN  found # {} =>
                    \A c \in ChoiceInputs :
                       ( /\ ~InRange(c, Cardinality(found))
                         /\ \/ option' = <<"4">> /\ Completed(edit_item(t, c, <<>>, <<>>))
                            \/ option' = <<"5">> /\ Completed(delete_item(t, c, <<>>)) ) =>
                          /\ database' = database
                          /\ running'
                          /\ Len(out') = Cardinality(found) + 2
                          /\ \A k \in 1..Cardinality(found) :
                                /\ out'[k + 1].n = k
                                /\ out'[k + 1].shown = << database[KthOf(found, k)] >>
                          /\ LastLine(out') \in { Msg("Please enter a valid number."),
                                                  Msg("Invalid selection.") } ]_vars

\* Two records were listed and the number typed was out of range.
C7_Witness ==
    /\ running
    /\ Len(database) = 2
    /\ Len(out) = 4
    /\ LastLine(out) = Msg("Invalid selection.")

\* C8 as stated: in every reachable catalog state a successful export writes
\* a file that reads back as the catalog.
C8_Original ==
    [][ (option' = <<"7">> /\ raised' = "" /\ Completed(export_to_file("ok", 0))) =>
          /\ Len(written') = 1
          /\ Load(written'[1]) = [ok |-> TRUE, val |-> database] ]_vars

\* C8, amended: export never changes the catalog, wherever it ends; on a
\* catalog that holds records a successful export writes one file that reads
\* back as the list of the catalog's records, equal in field values and
\* order; on the empty catalog export writes no file.
C8_ExportRoundTrip ==
    [][ option' = <<"7">> =>
          /\ database' = database
          /\ (database = <<>> => written' = <<>>)
          /\ raised' = "" =>
                \A io \in IoOutcomes, cut \in Cuts(Dump(database)) :
                   (database # <<>> /\ io = "ok" /\ Completed(export_to_file(io, cut))) =>
                      /\ Len(written') = 1
                      /\ Load(written'[1]) = [ok |-> TRUE, val |-> database] ]_vars

\* A catalog of two records holding a quote, a backslash, a tab and a vertical
\* tab was exported.
C8_Witness ==
    /\ running
    /\ Len(database) = 2
    /\ \E i \in 1..2 : database[i][AuthorKey] = <<"H", "\"", "\\", "\t", "\\x0b", "b">>
    /\ Len(written) = 1
    /\ out = << Msg("Export complete: ") >>

\* C9: no error is fatal: after every loop iteration the loop is still
\* running unless the choice read was 8, no exception ends the process, and
\* a choice read that is none of 1..8 prints "Invalid option." and leaves
\* the catalog unchanged and the loop running.
C9_OnlyExitLeavesLoop ==
    [][ /\ running' \/ option' = <<"8">>
        /\ raised' = ""
        /\ (running' /\ option' \notin Options) =>
              /\ out' = << Msg("Invalid option.") >>
              /\ database' = database ]_vars

\* C10 as stated: the records found are those for which the query is a
\* substring of title, author and genre concatenated, letter case ignored.
C10_Original ==
    [][ (option' = <<"3">> /\ raised' = "" /\ database # <<>>) =>
          \A q \in SearchInputs :
             Completed(search_items(q)) =>
                RecordsShown(out') =
                   SelectSeq(database, LAMBDA item :
                      Contains(Lower(Strip(q)),
                               Lower(item[BookKey] \o item[AuthorKey] \o item[GenreKey]))) ]_vars

\* C10, amended: the records found are, in catalog order, those for which the
\* stripped query is a substring of title, author and genre joined by single
\* spaces, letter case ignored; the search leaves the catalog unchanged.
C10_SearchFindsJoinedMatches ==
    [][ option' = <<"3">> =>
          /\ database' = database
          /\ raised' = "" =>
                \A q \in SearchInputs :
                   Completed(search_items(q)) =>
                      RecordsShown(out') =
                         SelectSeq(database, LAMBDA item :
                            Contains(Lower(Strip(q)),
                                     Lower(item[BookKey] \o <<" ">> \o item[AuthorKey]
                                              \o <<" ">> \o item[GenreKey]))) ]_vars

\* One of two records was found.
C10_Witness ==
    /\ running
    /\ Len(database) = 2
    /\ Len(out) = 1
    /\ out[1].text = "- by ()"

====
